---- MODULE Spec2Model ----
(***************************************************************************)
(* Dependency analysis engine of the SQL translator                        *)
(* (src/sql_converter/dependency_analyzer.py, class SQLDependencyAnalyzer):*)
(* table extraction, dependency graph, topological sort, batch analysis    *)
(* and the character-scan statement splitter.                              *)
(*                                                                         *)
(* Strings are sequences of one-character strings.  A parsed statement is  *)
(* what the code reads of sqlglot's result: per expression whether it is a *)
(* Create and its target, the Table nodes find_all(Table) yields and the   *)
(* CTE aliases find_all(CTE) yields; an empty statement parses to None.    *)
(***************************************************************************)
EXTENDS Integers, Sequences, FiniteSets, TLC

VARIABLES
    query,              \* _extract_tables_from_query: the argument
    created_tables,     \* _extract_tables_from_query: first returned set
    referenced_tables,  \* _extract_tables_from_query: second returned set
    parse_warning,      \* _extract_tables_from_query: the except branch logged
    ex_pc,              \* "call" before the function ran, "returned" after
    graph,              \* _topological_sort: the caller's dict, mutated in place
    input_graph,        \* history: the graph as it was handed to the sort
    table_order,        \* _topological_sort: the returned list
    cycle_warning,      \* _topological_sort: "Circular dependencies detected" logged
    cycle_tables,       \* _topological_sort: the tables named by the warning
    sort_pc,            \* "call" before the sort ran, "returned" after
    queries,            \* analyze_batch: what split_batch_queries returned
    batch_split,        \* analyze_batch: the path split_batch_queries took
    batch_result,       \* analyze_batch: the returned dict
    batch_pc,           \* "call" before analyze_batch ran, "returned" after
    large_result,       \* _analyze_large_batch called directly on queries
    large_pc,           \* "call" before that call, "returned" after
    sql_text,           \* _split_with_regex: the argument
    sql_batch,          \* _split_with_regex: the text after the comments are removed
    scan_pos,           \* _split_with_regex: index of the next character of the loop
    current_query,      \* _split_with_regex: current_query
    in_quotes,          \* _split_with_regex: in_quotes
    quote_char,         \* _split_with_regex: quote_char ("" for None)
    paren_level,        \* _split_with_regex: paren_level
    split_queries,      \* _split_with_regex: queries
    split_pc,           \* "call", "scan" inside the loop, "returned", then
                        \* "streamed" and "dispatched"
    stream_queries,     \* _stream_split_queries called on the same text
    split_method,       \* split_batch_queries called on the same text: its path
    parser_result,      \* what sqlglot.parse did in that call
    split_returned,     \* how that call ended and the list it returned
    source_dialect,     \* convert_sql, batch_convert_sql: source_dialect
    target_dialect,     \* convert_sql, batch_convert_sql: target_dialect
    sql_query,          \* convert_sql: sql
    sql_queries,        \* batch_convert_sql, batch_convert: the list of queries
    api_convert,        \* outcome of api.convert_sql
    std_convert,        \* outcome of converter.convert_sql
    api_batch,          \* outcome of api.batch_convert_sql
    std_batch,          \* outcome of SQLConverter.batch_convert
    convert_pc,         \* which of the four calls comes next
    analyzer,           \* the fields of the SQLDependencyAnalyzer instance
    last_sets,          \* query_tables, all_created_tables, all_referenced_tables
                        \* as the latest analyze_batch call left them
    call_log            \* the calls of analyze_batch so far: entry point, input
                        \* and result

extractVars == <<query, created_tables, referenced_tables, parse_warning, ex_pc>>

sortVars == <<graph, input_graph, table_order, cycle_warning, cycle_tables, sort_pc>>

batchVars == <<queries, batch_split, batch_result, batch_pc, large_result, large_pc>>

splitVars == <<sql_text, sql_batch, scan_pos, current_query, in_quotes, quote_char,
               paren_level, split_queries, split_pc, stream_queries, split_method,
               parser_result, split_returned>>

convertVars == <<source_dialect, target_dialect, sql_query, sql_queries, api_convert,
                 std_convert, api_batch, std_batch, convert_pc>>

callVars == <<analyzer, last_sets, call_log>>

vars == <<extractVars, sortVars, batchVars, splitVars, convertVars, callVars>>

\* ------------------------------------------------------------------ bounds

\* Most expressions sqlglot.parse returns for one query string.
MaxExprs == 2

\* Most tables (keys and dependency names) of a graph handed to the sort.
MaxNodes == 3

\* Most statements of a batch.
MaxQueries == 3

\* Most characters of a text handed to the splitter.
MaxTextLen == 4

\* The sizes the code fixes, scaled down so that batches of at most MaxQueries
\* statements reach both sides of each of them; their order is the code's
\* (chunk of analyze_batch < threshold = detail cap).

\* analyze_batch: "if len(queries) > 1000"
LargeBatchThreshold == 2

\* analyze_batch: chunk_size = 100
StandardChunkSize == 1

\* _analyze_large_batch: chunk_size = 200
LargeChunkSize == 2

\* _analyze_large_batch: the 1000 detail records kept, and statements rescanned,
\* for non-CREATE statements
DetailCap == 2

\* split_batch_queries: "if len(sql_batch) > 1000000"
BatchSizeLimit == 3

\* _process_large_batch: "if quick_count > 1000"
QuickCountLimit == 2

\* _stream_split_queries: chunk_size = 10000
StreamChunkSize == 2

\* Most queries of a list handed to batch_convert_sql.
MaxBatch == 2

\* Most calls of analyze_batch on one analyzer.
MaxCalls == 2

\* ------------------------------------------------------------------ strings

\* str.lower() on one character.
LowerChar(c) ==
    CASE c = "A" -> "a"
      [] c = "B" -> "b"
      [] c = "C" -> "c"
      [] c = "S" -> "s"
      [] c = "T" -> "t"
      [] OTHER -> c

\* str.lower(): character by character.
Lower(s) == [i \in 1..Len(s) |-> LowerChar(s[i])]

\* str.upper() on one character (used to build case variants of an input).
UpperChar(c) ==
    CASE c = "a" -> "A"
      [] c = "b" -> "B"
      [] c = "c" -> "C"
      [] c = "s" -> "S"
      [] c = "t" -> "T"
      [] OTHER -> c

Upper(s) == [i \in 1..Len(s) |-> UpperChar(s[i])]

Min(a, b) == IF a < b THEN a ELSE b

\* Python's seq[lo:hi] (0-based, hi exclusive).
Slice(seq, lo, hi) == SubSeq(seq, lo + 1, Min(hi, Len(seq)))

\* ------------------------------------------------------------------ parsed statements

\* A sqlglot Table node: its db (empty when unqualified) and its name.
Tbl(db, name) == [db |-> db, name |-> name]

NoTable == Tbl(<<>>, <<>>)

\* An empty statement: sqlglot.parse yields None for it.
NoneExpr == [kind |-> "none", this |-> NoTable, tables |-> {}, ctes |-> {}]

\* A statement that is not a Create, with its Table nodes and CTE aliases.
SelectExpr(tables, ctes) ==
    [kind |-> "select", this |-> NoTable, tables |-> tables, ctes |-> ctes]

\* A Create: find_all(Table) yields its target as well as its sources.
CreateExpr(target, tables, ctes) ==
    [kind |-> "create", this |-> target, tables |-> tables \cup {target}, ctes |-> ctes]

\* Mutant of TableName: the names are taken as written.
TableNameAsWritten(table) ==
    IF table.db /= <<>>
    THEN table.db \o <<".">> \o table.name
    ELSE table.name

\* f"{table.db.lower()}.{table.name.lower()}" or table.name.lower()
TableName(table) ==
    IF table.db /= <<>>
    THEN Lower(table.db) \o <<".">> \o Lower(table.name)
    ELSE Lower(table.name)

\* _get_table_references: the lower-cased names of all Table nodes.
GetTableReferences(expression) == {TableName(t) : t \in expression.tables}

\* The names the CTE filter lets through: {t.lower() for t in tables
\* if t.lower() not in cte_tables}.
FilterCTE(tables, cte_tables) ==
    {Lower(t) : t \in {u \in tables : Lower(u) \notin cte_tables}}

\* cte_tables after the CTE loop of one expression.
AddCTEs(cte_tables, expression) ==
    cte_tables \cup {Lower(c) : c \in expression.ctes}

\* created_tables after the Create branch of one expression.
AddCreated(created, expression) ==
    IF expression.kind = "create" /\ expression.this /= NoTable
    THEN created \cup {TableName(expression.this)}
    ELSE created

\* The loop "for expression in expressions" from its i-th iteration on.  The
\* three sets live across iterations; None has no find_all, so reaching it
\* raises AttributeError with the sets as accumulated so far.
RECURSIVE ExtractLoop(_, _, _, _, _)
ExtractLoop(expressions, i, created, referenced, cte_tables) ==
    IF i > Len(expressions)
    THEN [created |-> created, referenced |-> referenced, raised |-> FALSE]
    ELSE IF expressions[i].kind = "none"
    THEN [created |-> created, referenced |-> referenced, raised |-> TRUE]
    ELSE LET expression == expressions[i]
             cte2       == AddCTEs(cte_tables, expression)
             created2   == AddCreated(created, expression)
             tables     == FilterCTE(GetTableReferences(expression), cte2)
         IN  ExtractLoop(expressions, i + 1, created2, referenced \cup tables, cte2)

\* What the except branch leaves in the two sets it returns.
ExceptResult(acc) ==
    [created |-> acc.created, referenced |-> acc.referenced, warning |-> TRUE]

\* _extract_tables_from_query: (created, referenced) and whether the except
\* branch ran.  q.parse_error: sqlglot.parse itself raises.
ExtractTablesFromQuery(q) ==
    IF q.parse_error
    THEN ExceptResult([created |-> {}, referenced |-> {}])
    ELSE LET acc == ExtractLoop(q.expressions, 1, {}, {}, {})
         IN  IF acc.raised
             THEN ExceptResult(acc)
             ELSE [created    |-> acc.created,
                   referenced |-> acc.referenced \ acc.created,
                   warning    |-> FALSE]

\* ------------------------------------------------------------------ inputs of the extractor

\* A query string as the code sees it: does sqlglot.parse raise, the parsed
\* expressions, and whether the text matches ^\s*CREATE\s.
Query(parse_error, expressions, text_create) ==
    [parse_error |-> parse_error, expressions |-> expressions,
     text_create |-> text_create]

ExtractTargets == {Tbl(<<>>, <<"A">>), Tbl(<<"S">>, <<"b">>)}

ExtractSources == {Tbl(<<>>, <<"a">>), Tbl(<<>>, <<"t">>), Tbl(<<"s">>, <<"B">>)}

ExtractCTESets == {{}, {<<"T">>}}

SourceSets == {s \in SUBSET ExtractSources : Cardinality(s) <= 2}

ExtractExprs ==
    {NoneExpr}
    \cup {SelectExpr(s, c) : s \in SourceSets, c \in ExtractCTESets}
    \cup {CreateExpr(t, s, c) : t \in ExtractTargets, s \in SourceSets, c \in ExtractCTESets}

SeqsUpTo(S, n) == UNION {[1..k -> S] : k \in 0..n}

StartsWithCreate(expressions) ==
    Len(expressions) > 0 /\ expressions[1].kind = "create"

ExtractQueries ==
    {Query(TRUE, <<>>, FALSE)}
    \cup {Query(FALSE, es, StartsWithCreate(es)) : es \in SeqsUpTo(ExtractExprs, MaxExprs) \ {<<>>}}

\* ------------------------------------------------------------------ topological sort

\* A dict table -> set of tables: its keys in iteration (insertion) order and
\* the value of each key.
Dict(keys, deps) == [keys |-> keys, deps |-> deps]

ToSet(seq) == {seq[i] : i \in 1..Len(seq)}

KeySet(g) == ToSet(g.keys)

\* in_degree after the counting loops: for every key, the number of keys whose
\* dependency set contains it (names that are no key are skipped).
InDegree(g) ==
    [n \in KeySet(g) |-> Cardinality({node \in KeySet(g) : n \in g.deps[node]})]

\* deque([node for node in in_degree if in_degree[node] == 0])
InitialQueue(g, in_degree) ==
    LET Free(n) == in_degree[n] = 0
    IN  SelectSeq(g.keys, Free)

\* "for dependent in list(graph.keys())" from its j-th key on, for the node
\* just dequeued: drop the edge dependent -> node, decrement, enqueue at 0.
RECURSIVE RemoveEdges(_, _, _, _)
RemoveEdges(keys, j, node, st) ==
    IF j > Len(keys)
    THEN st
    ELSE LET dependent == keys[j]
         IN  IF node \in st.deps[dependent]
             THEN LET deg == st.in_degree[dependent] - 1
                      st2 == [st EXCEPT !.deps[dependent] = @ \ {node},
                                        !.in_degree[dependent] = deg,
                                        !.queue = IF deg = 0
                                                  THEN Append(@, dependent)
                                                  ELSE @]
                  IN  RemoveEdges(keys, j + 1, node, st2)
             ELSE RemoveEdges(keys, j + 1, node, st)

\* "while queue": popleft, append to result, remove the edges to the node.
RECURSIVE ProcessQueue(_, _)
ProcessQueue(keys, st) ==
    IF st.queue = <<>>
    THEN st
    ELSE LET node == Head(st.queue)
             st1  == [st EXCEPT !.queue = Tail(@), !.result = Append(@, node)]
         IN  ProcessQueue(keys, RemoveEdges(keys, 1, node, st1))

\* Mutant of CycleNodes: every node of the graph is taken as unresolved.
CycleNodesUnfiltered(keys, result) == keys

\* cycles = [node for node in graph if node not in result]
CycleNodes(keys, result) ==
    LET Unresolved(n) == n \notin ToSet(result)
    IN  SelectSeq(keys, Unresolved)

\* Mutant of TopologicalSort: the unresolved nodes are reported but not added
\* to the result.
TopologicalSortWithoutExtend(g) ==
    LET in_degree == InDegree(g)
        st == ProcessQueue(g.keys,
                  [deps |-> g.deps, in_degree |-> in_degree,
                   queue |-> InitialQueue(g, in_degree), result |-> <<>>])
        detected == Len(st.result) /= Len(g.keys)
    IN  [order   |-> st.result,
         graph   |-> Dict(g.keys, st.deps),
         warning |-> detected,
         cycles  |-> IF detected THEN CycleNodes(g.keys, st.result) ELSE <<>>]

\* _topological_sort: the returned list, the graph as the call leaves it, and
\* the warning with the tables it names.
TopologicalSort(g) ==
    LET in_degree == InDegree(g)
        st == ProcessQueue(g.keys,
                  [deps |-> g.deps, in_degree |-> in_degree,
                   queue |-> InitialQueue(g, in_degree), result |-> <<>>])
        detected == Len(st.result) /= Len(g.keys)
        cycles == CycleNodes(g.keys, st.result)
    IN  [order   |-> IF detected THEN st.result \o cycles ELSE st.result,
         graph   |-> Dict(g.keys, st.deps),
         warning |-> detected,
         cycles  |-> IF detected THEN cycles ELSE <<>>]

\* ------------------------------------------------------------------ character-scan splitter

Whitespace == {" ", "\n", "\t"}

\* str.strip()
RECURSIVE LStrip(_)
LStrip(s) == IF s /= <<>> /\ Head(s) \in Whitespace THEN LStrip(Tail(s)) ELSE s

RECURSIVE RStrip(_)
RStrip(s) ==
    IF s /= <<>> /\ s[Len(s)] \in Whitespace THEN RStrip(SubSeq(s, 1, Len(s) - 1)) ELSE s

Strip(s) == RStrip(LStrip(s))

\* The text from its first newline on (empty when it has none).
RECURSIVE FromEndOfLine(_)
FromEndOfLine(s) ==
    IF s = <<>> \/ Head(s) = "\n" THEN s ELSE FromEndOfLine(Tail(s))

\* re.sub(r'--.*?$', '', text, flags=re.MULTILINE): from "--" up to the end of
\* its line.
RECURSIVE StripLineComments(_)
StripLineComments(s) ==
    IF s = <<>>
    THEN <<>>
    ELSE IF Len(s) >= 2 /\ s[1] = "-" /\ s[2] = "-"
    THEN StripLineComments(FromEndOfLine(s))
    ELSE <<Head(s)>> \o StripLineComments(Tail(s))

\* The text after its first "*/" (<<"unclosed">> when it has none; no text
\* holds that element).
RECURSIVE AfterBlockEnd(_)
AfterBlockEnd(s) ==
    IF Len(s) < 2
    THEN <<"unclosed">>
    ELSE IF s[1] = "*" /\ s[2] = "/"
    THEN SubSeq(s, 3, Len(s))
    ELSE AfterBlockEnd(Tail(s))

\* re.sub(r'/\*.*?\*/', '', text, flags=re.DOTALL): from "/*" through the next
\* "*/"; an unclosed "/*" stays.
RECURSIVE StripBlockComments(_)
StripBlockComments(s) ==
    IF s = <<>>
    THEN <<>>
    ELSE IF Len(s) >= 2 /\ s[1] = "/" /\ s[2] = "*"
              /\ AfterBlockEnd(SubSeq(s, 3, Len(s))) /= <<"unclosed">>
    THEN StripBlockComments(AfterBlockEnd(SubSeq(s, 3, Len(s))))
    ELSE <<Head(s)>> \o StripBlockComments(Tail(s))

\* The two re.sub calls at the head of _split_with_regex.
StripComments(s) == StripBlockComments(StripLineComments(s))

\* in_quotes after the character.
QuotesAfter(char, quoted, qc) ==
    IF char \in {"'", "\""}
    THEN IF ~quoted THEN TRUE ELSE IF char = qc THEN FALSE ELSE quoted
    ELSE quoted

\* quote_char after the character.
QuoteCharAfter(char, quoted, qc) ==
    IF char \in {"'", "\""}
    THEN IF ~quoted THEN char ELSE IF char = qc THEN "" ELSE qc
    ELSE qc

\* paren_level after the character.
ParenAfter(char, quoted, level) ==
    IF char \in {"'", "\""} THEN level
    ELSE IF char = "(" /\ ~quoted THEN level + 1
    ELSE IF char = ")" /\ ~quoted THEN (IF level - 1 > 0 THEN level - 1 ELSE 0)
    ELSE level

\* Mutant of EndsStatement: the parenthesis depth is not looked at.
EndsStatementAtAnyDepth(char, quoted, level) ==
    /\ char = ";"
    /\ ~quoted

\* The last branch of the chain: the character ends the statement.
EndsStatement(char, quoted, level) ==
    /\ char \notin {"'", "\"", "(", ")"}
    /\ char = ";"
    /\ ~quoted
    /\ level = 0

\* Mutant of Flush: the text is appended as scanned, neither trimmed nor tested.
FlushAsScanned(qs, text) == Append(qs, text)

\* queries after "if current_query.strip(): queries.append(current_query.strip())".
Flush(qs, text) == IF Strip(text) /= <<>> THEN Append(qs, Strip(text)) ELSE qs

\* Mutant of LastQuery: what is left after the last ';' is not added.
LastQueryDropped(qs, text) == qs

\* "Add the last query if it exists": the text left when the input ends.
LastQuery(qs, text) == Flush(qs, text)

\* The scanner before the first character.
ScanStart ==
    [queries |-> <<>>, current_query |-> <<>>, in_quotes |-> FALSE, quote_char |-> "",
     paren_level |-> 0]

\* One iteration of "for char in sql_batch" on the scanner's state.
ScanStep(st, char) ==
    LET text == Append(st.current_query, char)
        ends == EndsStatement(char, st.in_quotes, st.paren_level)
    IN  [queries       |-> IF ends THEN Flush(st.queries, text) ELSE st.queries,
         current_query |-> IF ends THEN <<>> ELSE text,
         in_quotes     |-> QuotesAfter(char, st.in_quotes, st.quote_char),
         quote_char    |-> QuoteCharAfter(char, st.in_quotes, st.quote_char),
         paren_level   |-> ParenAfter(char, st.in_quotes, st.paren_level)]

RECURSIVE ScanFrom(_, _, _)
ScanFrom(text, i, st) ==
    IF i > Len(text) THEN st ELSE ScanFrom(text, i + 1, ScanStep(st, text[i]))

\* _split_with_regex as one call.
SplitWithRegex(text) ==
    LET st == ScanFrom(StripComments(text), 1, ScanStart)
    IN  LastQuery(st.queries, st.current_query)

\* ------------------------------------------------------------------ streaming splitter

\* One iteration of "for i, char in enumerate(query)" (query: text) of
\* _is_valid_query_boundary on the state (quote_count, paren_level, in_comment,
\* in_block_comment).
BoundaryStep(text, i, st) ==
    LET char == text[i]
        next == IF i + 1 <= Len(text) THEN text[i + 1] ELSE ""
    IN  IF st.in_comment
        THEN [st EXCEPT !.in_comment = (char /= "\n")]
        ELSE IF st.in_block_comment
        THEN [st EXCEPT !.in_block_comment = ~(char = "*" /\ next = "/")]
        ELSE IF char = "-" /\ next = "-"
        THEN [st EXCEPT !.in_comment = TRUE]
        ELSE IF char = "/" /\ next = "*"
        THEN [st EXCEPT !.in_block_comment = TRUE]
        ELSE IF char \in {"'", "\""}
        THEN [st EXCEPT !.quote_count = @ + 1]
        ELSE IF char = "("
        THEN [st EXCEPT !.paren_level = @ + 1]
        ELSE IF char = ")"
        THEN [st EXCEPT !.paren_level = IF @ - 1 > 0 THEN @ - 1 ELSE 0]
        ELSE st

RECURSIVE BoundaryScan(_, _, _)
BoundaryScan(text, i, st) ==
    IF i > Len(text) THEN st ELSE BoundaryScan(text, i + 1, BoundaryStep(text, i, st))

\* _is_valid_query_boundary: the quotes counted are even in number and the
\* parenthesis level is 0 at the end of the text.
IsValidQueryBoundary(text) ==
    LET st == BoundaryScan(text, 1,
                  [quote_count |-> 0, paren_level |-> 0,
                   in_comment |-> FALSE, in_block_comment |-> FALSE])
    IN  st.quote_count % 2 = 0 /\ st.paren_level = 0

\* buffer.find(';') as a 1-based index (0 when there is none).
Find(buffer, char) ==
    IF char \in {buffer[i] : i \in 1..Len(buffer)}
    THEN CHOOSE i \in 1..Len(buffer) :
             buffer[i] = char /\ \A j \in 1..(i - 1) : buffer[j] /= char
    ELSE 0

\* The "while True" loop of _stream_split_queries: the text up to each ';' is
\* cut off the buffer, and appended (trimmed, if not blank) when it is a valid
\* boundary; the buffer keeps what follows the last ';'.
RECURSIVE DrainBuffer(_, _)
DrainBuffer(buffer, qs) ==
    LET semicolon_pos == Find(buffer, ";")
    IN  IF semicolon_pos = 0
        THEN [buffer |-> buffer, queries |-> qs]
        ELSE LET piece == SubSeq(buffer, 1, semicolon_pos)
                 rest  == SubSeq(buffer, semicolon_pos + 1, Len(buffer))
             IN  DrainBuffer(rest, IF IsValidQueryBoundary(piece) THEN Flush(qs, piece) ELSE qs)

\* Mutant of StreamChunks: what a chunk leaves in the buffer is not carried
\* into the next chunk but emitted on its own.
RECURSIVE StreamChunksWithoutCarry(_, _, _, _, _)
StreamChunksWithoutCarry(text, chunk_size, i, buffer, qs) ==
    IF i >= Len(text)
    THEN Flush(qs, buffer)
    ELSE LET st == DrainBuffer(Slice(text, i, i + chunk_size), Flush(qs, buffer))
         IN  StreamChunksWithoutCarry(text, chunk_size, i + chunk_size, st.buffer, st.queries)

\* "for chunk in chunks" from the chunk at offset i on, then the last append.
RECURSIVE StreamChunks(_, _, _, _, _)
StreamChunks(text, chunk_size, i, buffer, qs) ==
    IF i >= Len(text)
    THEN Flush(qs, buffer)
    ELSE LET st == DrainBuffer(buffer \o Slice(text, i, i + chunk_size), qs)
         IN  StreamChunks(text, chunk_size, i + chunk_size, st.buffer, st.queries)

\* _stream_split_queries
StreamSplitQueries(text) == StreamChunks(text, StreamChunkSize, 0, <<>>, <<>>)

\* ------------------------------------------------------------------ split_batch_queries

\* split_batch_queries has not run.
NoMethod == [parser_called |-> FALSE, splitter |-> "none"]

\* What sqlglot.parse can do with a text as the code provides for it: raise,
\* return a list of statements, or return an empty list.
ParserOutcomes == {"raise", "parsed", "nothing"}

\* What sqlglot.parse did with the text, and [str(q) for q in parsed_queries].
ParserResult(outcome, statements) == [outcome |-> outcome, statements |-> statements]

\* One letter of a pattern matched under re.IGNORECASE.
AnyCase(upper, lower) == {upper, lower}

\* r'NOLOGGING'
NoLoggingPattern ==
    <<AnyCase("N", "n"), AnyCase("O", "o"), AnyCase("L", "l"), AnyCase("O", "o"),
      AnyCase("G", "g"), AnyCase("G", "g"), AnyCase("I", "i"), AnyCase("N", "n"),
      AnyCase("G", "g")>>

\* The "PARALLEL " of r'PARALLEL \d+'
ParallelPattern ==
    <<AnyCase("P", "p"), AnyCase("A", "a"), AnyCase("R", "r"), AnyCase("A", "a"),
      AnyCase("L", "l"), AnyCase("L", "l"), AnyCase("E", "e"), AnyCase("L", "l"), {" "}>>

Digits == {"0", "1", "2", "3", "4", "5", "6", "7", "8", "9"}

\* The text starts with a match of the pattern.
StartsWith(text, pattern) ==
    /\ Len(text) >= Len(pattern)
    /\ \A i \in 1..Len(pattern) : text[i] \in pattern[i]

\* The text after its leading digits.
RECURSIVE AfterDigits(_)
AfterDigits(text) ==
    IF text /= <<>> /\ Head(text) \in Digits THEN AfterDigits(Tail(text)) ELSE text

\* re.sub(r'NOLOGGING', '', text, flags=re.IGNORECASE)
RECURSIVE RemoveNoLogging(_)
RemoveNoLogging(text) ==
    IF text = <<>>
    THEN <<>>
    ELSE IF StartsWith(text, NoLoggingPattern)
    THEN RemoveNoLogging(SubSeq(text, Len(NoLoggingPattern) + 1, Len(text)))
    ELSE <<Head(text)>> \o RemoveNoLogging(Tail(text))

\* re.sub(r'PARALLEL \d+', '', text, flags=re.IGNORECASE)
RECURSIVE RemoveParallel(_)
RemoveParallel(text) ==
    IF text = <<>>
    THEN <<>>
    ELSE IF /\ StartsWith(text, ParallelPattern)
            /\ Len(text) > Len(ParallelPattern)
            /\ text[Len(ParallelPattern) + 1] \in Digits
    THEN RemoveParallel(AfterDigits(SubSeq(text, Len(ParallelPattern) + 1, Len(text))))
    ELSE <<Head(text)>> \o RemoveParallel(Tail(text))

\* clean_batch of split_batch_queries
CleanBatch(text) == RemoveParallel(RemoveNoLogging(text))

\* len(sql_batch.split(';'))
QuickCount(text) == Cardinality({i \in 1..Len(text) : text[i] = ";"}) + 1

\* The path split_batch_queries takes for a text of the length and the quick
\* count, given what sqlglot.parse does with it ("raise", "parsed": a
\* non-empty list, "nothing": an empty list): whether the parser is called
\* and which splitter makes the returned list.
SplitMethod(length, quick_count, blank, parser) ==
    IF length > BatchSizeLimit
    THEN [parser_called |-> FALSE,
          splitter |-> IF quick_count > QuickCountLimit THEN "stream" ELSE "scan"]
    ELSE [parser_called |-> TRUE,
          splitter |-> IF parser = "raise" THEN "scan"
                       ELSE IF parser = "parsed" THEN "sqlglot"
                       ELSE IF ~blank THEN "scan"
                       ELSE "none"]

\* _process_large_batch
ProcessLargeBatch(text) ==
    IF QuickCount(text) > QuickCountLimit
    THEN StreamSplitQueries(text)
    ELSE SplitWithRegex(text)

\* Mutant of OnParserError: the exception leaves split_batch_queries.
OnParserErrorPropagated(text) == [status |-> "raised", queries |-> <<>>]

\* The except branch of split_batch_queries.
OnParserError(text) == [status |-> "returned", queries |-> SplitWithRegex(text)]

\* split_batch_queries: how the call ends and the list it returns, given what
\* sqlglot.parse does with the text.
SplitBatchQueriesResult(text, parsed) ==
    IF Len(text) > BatchSizeLimit
    THEN [status |-> "returned", queries |-> ProcessLargeBatch(CleanBatch(text))]
    ELSE IF parsed.outcome = "raise"
    THEN OnParserError(text)
    ELSE IF parsed.statements /= <<>>
    THEN [status |-> "returned", queries |-> parsed.statements]
    ELSE IF Strip(text) /= <<>>
    THEN [status |-> "returned", queries |-> SplitWithRegex(text)]
    ELSE [status |-> "returned", queries |-> <<>>]

\* ------------------------------------------------------------------ dependency graph

\* Every order in which iterating a set can yield its elements.
Perms(S) ==
    {f \in [1..Cardinality(S) -> S] : \A i, j \in 1..Cardinality(S) : f[i] = f[j] => i = j}

\* The dict before any query is read.
EmptyGraph == [keys |-> <<>>, deps |-> <<>>, all_tables |-> {}]

\* Mutant of AddDependencies: the dependency set of a created table is replaced
\* by the referenced set of the statement at hand.
AddDependenciesOverwriting(deps, created, referenced) ==
    LET touched == IF referenced = {} THEN {} ELSE created
    IN  [t \in DOMAIN deps \cup touched |->
            IF t \in touched THEN referenced ELSE deps[t]]

\* "for created_table in created: for ref_table in referenced:
\* graph[created_table].add(ref_table)": the defaultdict makes the entry of a
\* created table on its first access, which needs a referenced table.
AddDependencies(deps, created, referenced) ==
    LET touched == IF referenced = {} THEN {} ELSE created
    IN  [t \in DOMAIN deps \cup touched |->
            (IF t \in DOMAIN deps THEN deps[t] ELSE {})
                \cup (IF t \in touched THEN referenced ELSE {})]

\* "for query in queries" from the i-th query on: the states the loop can end
\* in.  New keys enter the dict in the order the set created is iterated in,
\* which the code does not fix.
RECURSIVE GraphLoop(_, _, _)
GraphLoop(qs, i, st) ==
    IF i > Len(qs)
    THEN {st}
    ELSE LET r == ExtractTablesFromQuery(qs[i])
             fresh == IF r.referenced = {} THEN {} ELSE r.created \ ToSet(st.keys)
         IN  UNION {GraphLoop(qs, i + 1,
                        [keys       |-> st.keys \o p,
                         deps       |-> AddDependencies(st.deps, r.created, r.referenced),
                         all_tables |-> st.all_tables \cup r.created \cup r.referenced]) :
                    p \in Perms(fresh)}

\* Mutant of AddStandalone: a table without an entry gets the other tables as
\* its dependencies.
AddStandaloneLinked(st) ==
    {Dict(st.keys \o rest,
          [t \in DOMAIN st.deps \cup st.all_tables |->
              IF t \in DOMAIN st.deps THEN st.deps[t] ELSE st.all_tables \ {t}]) :
         rest \in Perms(st.all_tables \ ToSet(st.keys))}

\* "for table in all_tables: if table not in graph: graph[table] = set()", in
\* every order the set all_tables can be iterated in.
AddStandalone(st) ==
    {Dict(st.keys \o rest,
          [t \in DOMAIN st.deps \cup st.all_tables |->
              IF t \in DOMAIN st.deps THEN st.deps[t] ELSE {}]) :
         rest \in Perms(st.all_tables \ ToSet(st.keys))}

\* _build_dependency_graph: the dicts it can return for the queries.
BuildDependencyGraph(qs) == UNION {AddStandalone(st) : st \in GraphLoop(qs, 1, EmptyGraph)}

\* ------------------------------------------------------------------ batch analysis

NoResult == [status |-> "none"]

\* One entry of query_details.
Detail(q, creates, references) ==
    [query |-> q, creates |-> creates, references |-> references]

\* Mutant of ExternalDependencies: the created tables are not taken out.
ExternalDependenciesNotSubtracted(all_referenced, all_created) == all_referenced

\* external_dependencies = all_referenced_tables - all_created_tables
ExternalDependencies(all_referenced, all_created) == all_referenced \ all_created

\* "for query in chunk" of analyze_batch from the k-th query of the chunk on.
RECURSIVE StandardChunk(_, _, _)
StandardChunk(chunk, k, acc) ==
    IF k > Len(chunk)
    THEN acc
    ELSE LET r == ExtractTablesFromQuery(chunk[k])
         IN  StandardChunk(chunk, k + 1,
                 [details    |-> Append(acc.details, Detail(chunk[k], r.created, r.referenced)),
                  created    |-> acc.created \cup r.created,
                  referenced |-> acc.referenced \cup r.referenced])

\* Mutant of StandardPass: only the first chunk is processed.
StandardPassFirstChunkOnly(qs, i, acc) ==
    StandardChunk(Slice(qs, 0, StandardChunkSize), 1, acc)

\* Mutant of TotalTables: the external dependencies are not counted.
TotalTablesCreatedOnly(all_created, external) == Cardinality(all_created)

\* len(all_created_tables) + len(external_dependencies)
TotalTables(all_created, external) == Cardinality(all_created) + Cardinality(external)

\* The sets of a call that has not run.
NoSets == [details |-> <<>>, created |-> {}, referenced |-> {}]

\* Mutant of NewSets: the call goes on with the sets of the call before.
NewSetsKept(leftover) == leftover

\* query_tables = [], all_created_tables = set(), all_referenced_tables = set():
\* the sets a call starts with, whatever the call before left.
NewSets(leftover) == NoSets

\* "for i in range(0, len(queries), chunk_size)" of analyze_batch from offset i.
RECURSIVE StandardPass(_, _, _)
StandardPass(qs, i, acc) ==
    IF i >= Len(qs)
    THEN acc
    ELSE StandardPass(qs, i + StandardChunkSize,
             StandardChunk(Slice(qs, i, i + StandardChunkSize), 1, acc))

\* The dict analyze_batch returns in standard mode, given the graph that
\* analyze_queries built.
StandardResultAfter(qs, sorted, leftover) ==
    LET acc == StandardPass(qs, 0, NewSets(leftover))
        external == ExternalDependencies(acc.referenced, acc.created)
    IN  [status                |-> "standard",
         table_creation_order  |-> sorted.order,
         external_dependencies |-> external,
         query_details         |-> acc.details,
         total_queries         |-> Len(qs),
         total_tables          |-> TotalTables(acc.created, external),
         has_note              |-> FALSE]

\* The dict of a call on an analyzer that has made no call before.
StandardResult(qs, sorted) == StandardResultAfter(qs, sorted, NoSets)

\* The partition of _analyze_large_batch: re.search(r'^\s*CREATE\s', query).
CreateStatements(qs) ==
    LET IsCreate(q) == q.text_create
    IN  SelectSeq(qs, IsCreate)

OtherStatements(qs) ==
    LET IsOther(q) == ~q.text_create
    IN  SelectSeq(qs, IsOther)

\* The loop over create_statements: create_details and all_created_tables.
RECURSIVE CreatePass(_, _, _)
CreatePass(stmts, k, acc) ==
    IF k > Len(stmts)
    THEN acc
    ELSE LET r == ExtractTablesFromQuery(stmts[k])
         IN  CreatePass(stmts, k + 1,
                 [details |-> Append(acc.details, Detail(stmts[k], r.created, r.referenced)),
                  created |-> acc.created \cup r.created])

\* "for query in chunk" over other_statements: the created set is dropped, a
\* detail record is kept while fewer than DetailCap are held.
RECURSIVE OtherChunk(_, _, _)
OtherChunk(chunk, k, acc) ==
    IF k > Len(chunk)
    THEN acc
    ELSE LET r == ExtractTablesFromQuery(chunk[k])
         IN  OtherChunk(chunk, k + 1,
                 [details    |-> IF Len(acc.details) < DetailCap
                                 THEN Append(acc.details, Detail(chunk[k], {}, r.referenced))
                                 ELSE acc.details,
                  referenced |-> acc.referenced \cup r.referenced])

RECURSIVE OtherPass(_, _, _)
OtherPass(stmts, i, acc) ==
    IF i >= Len(stmts)
    THEN acc
    ELSE OtherPass(stmts, i + LargeChunkSize,
             OtherChunk(Slice(stmts, i, i + LargeChunkSize), 1, acc))

\* critical_queries: the CREATE statements, then those of the first DetailCap
\* other statements that reference a created table.
CriticalQueries(qs, all_created) ==
    LET Critical(q) == ExtractTablesFromQuery(q).referenced \cap all_created /= {}
    IN  CreateStatements(qs) \o SelectSeq(Slice(OtherStatements(qs), 0, DetailCap), Critical)

\* all_created_tables of _analyze_large_batch.
LargeCreated(qs) ==
    CreatePass(CreateStatements(qs), 1, [details |-> <<>>, created |-> {}]).created

\* other_details, all_created_tables and all_referenced_tables as
\* _analyze_large_batch leaves them.
LargeSets(qs) ==
    LET others == OtherPass(OtherStatements(qs), 0, [details |-> <<>>, referenced |-> {}])
    IN  [details |-> others.details, created |-> LargeCreated(qs),
         referenced |-> others.referenced]

\* The dict _analyze_large_batch returns, given the sort of the graph built
\* from the critical queries.
LargeResult(qs, sorted) ==
    LET creates == CreatePass(CreateStatements(qs), 1, [details |-> <<>>, created |-> {}])
        others  == OtherPass(OtherStatements(qs), 0, [details |-> <<>>, referenced |-> {}])
        external == ExternalDependencies(others.referenced, creates.created)
    IN  [status                |-> "large",
         table_creation_order  |-> sorted.order,
         external_dependencies |-> external,
         query_details         |-> creates.details
                                       \o Slice(others.details, 0, Min(DetailCap, Len(others.details))),
         total_queries         |-> Len(qs),
         total_tables          |-> TotalTables(creates.created, external),
         has_note              |-> TRUE]

\* ------------------------------------------------------------------ conversion

\* dialect.lower() on the dialect names in use.
DialectLower(dialect) == IF dialect = "MYSQL" THEN "mysql" ELSE dialect

\* The keys of DIALECT_HANDLERS.
DialectHandlers == {"oracle", "pyspark", "mysql", "postgresql", "postgres"}

\* simple_converter.convert_sql: dialect_mapping.get(name.lower(), name.lower())
SqlglotName(dialect) ==
    CASE DialectLower(dialect) = "postgresql" -> "postgres"
      [] DialectLower(dialect) = "pyspark" -> "spark"
      [] OTHER -> DialectLower(dialect)

\* The dialects of these that sqlglot knows; for another name transpile raises.
SqlglotDialects == {"mysql", "postgres", "oracle", "spark"}

\* The keys of REPLACEMENTS.
ReplacementKeys ==
    {<<"mysql", "postgresql">>, <<"postgresql", "mysql">>,
     <<"oracle", "postgresql">>, <<"oracle", "pyspark">>}

\* A value a conversion returns: the query it was made from and the last step
\* that shaped it.
Converted(q, step) == [query |-> q.name, step |-> step]

\* Python's None.
None == [query |-> "None", step |-> "None"]

Returned(value) == [status |-> "returned", value |-> value]

Raised(error) == [status |-> error, value |-> None]

NotCalled == [status |-> "not called", value |-> None]

\* simple_converter.convert_sql.  q.is_text: the query is a str (clean_sql,
\* the first call on either path, raises on anything else); q.transpiles: sqlglot.transpile succeeds on the
\* cleaned text when it knows both dialects.
EnhancedConvert(q, source, target) ==
    IF ~q.is_text
    THEN Raised("Exception")
    ELSE IF DialectLower(source) = DialectLower(target)
    THEN Returned(Converted(q, "clean_sql"))
    ELSE IF /\ q.transpiles
            /\ SqlglotName(source) \in SqlglotDialects
            /\ SqlglotName(target) \in SqlglotDialects
    THEN Returned(Converted(q, "sqlglot"))
    ELSE IF <<DialectLower(source), DialectLower(target)>> \notin ReplacementKeys
    THEN Returned(Converted(q, "clean_sql"))
    ELSE Returned(Converted(q, "regex"))

\* SQLConverter.convert.  q.parse_error: what parse_sql raises on the query
\* ("none" when it returns).
Convert(q, source, target) ==
    IF DialectLower(source) = DialectLower(target)
    THEN Returned(Converted(q, "unchanged"))
    ELSE IF q.parse_error /= "none"
    THEN Raised(q.parse_error)
    ELSE IF DialectLower(target) \notin DialectHandlers
    THEN Raised("ValueError")
    ELSE Returned(Converted(q, "sqlparse.format"))

\* api.convert_sql: the enhanced converter, and SQLConverter.convert when it
\* raises.
ApiConvertSql(q, source, target) ==
    IF EnhancedConvert(q, source, target).status = "returned"
    THEN EnhancedConvert(q, source, target)
    ELSE Convert(q, source, target)

\* Mutant of OnError: a failed query leaves no entry.
OnErrorSkipped(converted_queries) == converted_queries

\* The except branch of batch_convert: converted_queries.append(None)
OnError(converted_queries) == Append(converted_queries, None)

\* SQLConverter.batch_convert: "for i, sql in enumerate(sql_queries)" from the
\* i-th query on.
RECURSIVE BatchConvert(_, _, _, _, _)
BatchConvert(qs, i, source, target, converted_queries) ==
    IF i > Len(qs)
    THEN Returned(converted_queries)
    ELSE LET r == Convert(qs[i], source, target)
         IN  BatchConvert(qs, i + 1, source, target,
                 IF r.status = "returned"
                 THEN Append(converted_queries, r.value)
                 ELSE OnError(converted_queries))

\* simple_converter.batch_convert: the list comprehension raises as soon as one
\* conversion does.
EnhancedBatchConvert(qs, source, target) ==
    IF \E i \in 1..Len(qs) : EnhancedConvert(qs[i], source, target).status /= "returned"
    THEN Raised("Exception")
    ELSE Returned([i \in 1..Len(qs) |-> EnhancedConvert(qs[i], source, target).value])

\* api.batch_convert_sql
ApiBatchConvertSql(qs, source, target) ==
    IF EnhancedBatchConvert(qs, source, target).status = "returned"
    THEN EnhancedBatchConvert(qs, source, target)
    ELSE BatchConvert(qs, 1, source, target, <<>>)

\* ------------------------------------------------------------------ extractor: specification

\* SQLDependencyAnalyzer.__init__
NewAnalyzer == [dialect |-> "sqlite"]

IdleCalls ==
    /\ analyzer = NewAnalyzer
    /\ last_sets = NoSets
    /\ call_log = <<>>

IdleConvert ==
    /\ source_dialect = "mysql"
    /\ target_dialect = "mysql"
    /\ sql_query = [name |-> "", is_text |-> TRUE, transpiles |-> TRUE, parse_error |-> "none"]
    /\ sql_queries = <<>>
    /\ api_convert = NotCalled
    /\ std_convert = NotCalled
    /\ api_batch = NotCalled
    /\ std_batch = NotCalled
    /\ convert_pc = "idle"

IdleExtract ==
    /\ query = Query(TRUE, <<>>, FALSE)
    /\ created_tables = {}
    /\ referenced_tables = {}
    /\ parse_warning = FALSE
    /\ ex_pc = "idle"

IdleSort ==
    /\ graph = [keys |-> <<>>, deps |-> <<>>]
    /\ input_graph = [keys |-> <<>>, deps |-> <<>>]
    /\ table_order = <<>>
    /\ cycle_warning = FALSE
    /\ cycle_tables = <<>>
    /\ sort_pc = "idle"

IdleSplit ==
    /\ sql_text = <<>>
    /\ sql_batch = <<>>
    /\ scan_pos = 1
    /\ current_query = <<>>
    /\ in_quotes = FALSE
    /\ quote_char = ""
    /\ paren_level = 0
    /\ split_queries = <<>>
    /\ split_pc = "idle"
    /\ stream_queries = <<>>
    /\ split_method = NoMethod
    /\ parser_result = ParserResult("not called", <<>>)
    /\ split_returned = [status |-> "not called", queries |-> <<>>]

IdleBatch ==
    /\ queries = <<>>
    /\ batch_split = NoMethod
    /\ batch_result = NoResult
    /\ batch_pc = "idle"
    /\ large_result = NoResult
    /\ large_pc = "idle"

InitExtract ==
    /\ IdleConvert
    /\ IdleCalls
    /\ IdleSort
    /\ IdleBatch
    /\ IdleSplit
    /\ query \in ExtractQueries
    /\ created_tables = {}
    /\ referenced_tables = {}
    /\ parse_warning = FALSE
    /\ ex_pc = "call"

\* One call of _extract_tables_from_query(query).
ExtractCall ==
    /\ ex_pc = "call"
    /\ LET r == ExtractTablesFromQuery(query)
       IN  /\ created_tables' = r.created
           /\ referenced_tables' = r.referenced
           /\ parse_warning' = r.warning
    /\ ex_pc' = "returned"
    /\ UNCHANGED <<query, sortVars, batchVars, splitVars, convertVars, callVars>>

NextExtract == ExtractCall

SpecExtract == InitExtract /\ [][NextExtract]_vars

\* ------------------------------------------------------------------ splitter: specification

\* What sqlglot.parse can do with the text: raise, return no statement, or
\* return one or two statements, rendered by str().
ParserResults ==
    {ParserResult("raise", <<>>), ParserResult("nothing", <<>>),
     ParserResult("parsed", <<<<"str(q1)">>>>),
     ParserResult("parsed", <<<<"str(q1)">>, <<"str(q2)">>>>)}

SplitAlphabet == {"'", "\"", "(", ")", ";", "x", "-", "\n", "/", "*", " "}

InitSplit ==
    /\ IdleConvert
    /\ IdleCalls
    /\ IdleExtract
    /\ IdleSort
    /\ IdleBatch
    /\ sql_text \in SeqsUpTo(SplitAlphabet, MaxTextLen)
    /\ sql_batch = <<>>
    /\ scan_pos = 1
    /\ current_query = <<>>
    /\ in_quotes = FALSE
    /\ quote_char = ""
    /\ paren_level = 0
    /\ split_queries = <<>>
    /\ split_pc = "call"
    /\ stream_queries = <<>>
    /\ split_method = NoMethod
    /\ parser_result = ParserResult("not called", <<>>)
    /\ split_returned = [status |-> "not called", queries |-> <<>>]

\* _split_with_regex up to the loop: the comments are removed, the scanner
\* state is initialised.
SplitBegin ==
    /\ split_pc = "call"
    /\ sql_batch' = StripComments(sql_text)
    /\ split_pc' = "scan"
    /\ UNCHANGED <<sql_text, scan_pos, current_query, in_quotes, quote_char,
                   paren_level, split_queries, stream_queries, split_method,
                   parser_result, split_returned, extractVars, sortVars, batchVars, convertVars, callVars>>

\* One iteration of "for char in sql_batch".
ScanChar ==
    /\ split_pc = "scan"
    /\ scan_pos <= Len(sql_batch)
    /\ LET char == sql_batch[scan_pos]
           text == Append(current_query, char)
       IN  /\ in_quotes' = QuotesAfter(char, in_quotes, quote_char)
           /\ quote_char' = QuoteCharAfter(char, in_quotes, quote_char)
           /\ paren_level' = ParenAfter(char, in_quotes, paren_level)
           /\ IF EndsStatement(char, in_quotes, paren_level)
              THEN /\ split_queries' = Flush(split_queries, text)
                   /\ current_query' = <<>>
              ELSE /\ split_queries' = split_queries
                   /\ current_query' = text
    /\ scan_pos' = scan_pos + 1
    /\ UNCHANGED <<sql_text, sql_batch, split_pc, stream_queries, split_method,
                   parser_result, split_returned, extractVars, sortVars, batchVars, convertVars, callVars>>

\* After the loop: the last statement is added and the list returned.
SplitEnd ==
    /\ split_pc = "scan"
    /\ scan_pos > Len(sql_batch)
    /\ split_queries' = LastQuery(split_queries, current_query)
    /\ split_pc' = "returned"
    /\ UNCHANGED <<sql_text, sql_batch, scan_pos, current_query, in_quotes, quote_char,
                   paren_level, stream_queries, split_method,
                   parser_result, split_returned, extractVars, sortVars, batchVars, convertVars, callVars>>

\* One call of _stream_split_queries(sql_text).
StreamCall ==
    /\ split_pc = "returned"
    /\ stream_queries' = StreamSplitQueries(sql_text)
    /\ split_pc' = "streamed"
    /\ UNCHANGED <<sql_text, sql_batch, scan_pos, current_query, in_quotes, quote_char,
                   paren_level, split_queries, split_method,
                   parser_result, split_returned, extractVars, sortVars, batchVars, convertVars, callVars>>

\* One call of split_batch_queries(sql_text): the path it takes and what it
\* returns.
SplitBatchQueries ==
    /\ split_pc = "streamed"
    /\ \E parsed \in ParserResults :
           /\ parser_result' = IF Len(sql_text) > BatchSizeLimit
                                THEN ParserResult("not called", <<>>)
                                ELSE parsed
           /\ split_method' = SplitMethod(Len(sql_text), QuickCount(CleanBatch(sql_text)),
                                          Strip(sql_text) = <<>>, parsed.outcome)
           /\ split_returned' = SplitBatchQueriesResult(sql_text, parsed)
    /\ split_pc' = "dispatched"
    /\ UNCHANGED <<sql_text, sql_batch, scan_pos, current_query, in_quotes, quote_char,
                   paren_level, split_queries, stream_queries,
                   extractVars, sortVars, batchVars, convertVars, callVars>>

NextSplit == SplitBegin \/ ScanChar \/ SplitEnd \/ StreamCall \/ SplitBatchQueries

SpecSplit == InitSplit /\ [][NextSplit]_vars

\* ------------------------------------------------------------------ inputs of the sort

Letters == <<"a", "b", "c", "d", "e", "f">>

\* The i-th table name.
NodeName(i) == <<Letters[i]>>

NodeNames(n) == {NodeName(i) : i \in 1..n}

\* The dicts whose keys are the first k table names and whose dependency sets
\* draw on MaxNodes names (a dependency need not be a key; a key may depend
\* on itself).
SortKeys(k) == [i \in 1..k |-> NodeName(i)]

SortDeps(k) == [NodeNames(k) -> SUBSET NodeNames(MaxNodes)]

\* ------------------------------------------------------------------ sort: specification

InitSort ==
    /\ IdleConvert
    /\ IdleCalls
    /\ IdleExtract
    /\ IdleBatch
    /\ IdleSplit
    /\ \E k \in 0..MaxNodes : \E d \in SortDeps(k) : graph = Dict(SortKeys(k), d)
    /\ input_graph = graph
    /\ table_order = <<>>
    /\ cycle_warning = FALSE
    /\ cycle_tables = <<>>
    /\ sort_pc = "call"

\* One call of _topological_sort(graph).
SortCall ==
    /\ sort_pc = "call"
    /\ LET r == TopologicalSort(graph)
       IN  /\ graph' = r.graph
           /\ table_order' = r.order
           /\ cycle_warning' = r.warning
           /\ cycle_tables' = r.cycles
    /\ sort_pc' = "returned"
    /\ UNCHANGED <<input_graph, extractVars, batchVars, splitVars, convertVars, callVars>>

NextSort == SortCall

SpecSort == InitSort /\ [][NextSort]_vars

\* ------------------------------------------------------------------ inputs of the batch analysis

T(c) == Tbl(<<>>, <<c>>)

\* "SELECT * FROM ..." over the tables.
SelectFrom(tables) == Query(FALSE, <<SelectExpr(tables, {})>>, FALSE)

\* "CREATE TABLE target AS SELECT * FROM ..." ("CREATE TABLE target (...)"
\* when there is no source).
CreateFrom(target, sources) == Query(FALSE, <<CreateExpr(target, sources, {})>>, TRUE)

\* The statements a batch is made of: one parsed statement per query string,
\* but for the three last.
BatchQueries ==
    {SelectFrom({T("c")}), SelectFrom({T("a"), T("c")}),
     CreateFrom(T("a"), {}), CreateFrom(T("b"), {T("a")}),
     CreateFrom(T("c"), {T("b")}), CreateFrom(T("a"), {T("b")}),
     CreateFrom(T("a"), {T("c")}),
     \* a statement sqlglot cannot parse
     Query(TRUE, <<>>, FALSE),
     \* "CREATE TABLE a AS SELECT * FROM a, b;;": a Create, then None
     Query(FALSE, <<CreateExpr(T("a"), {T("b")}, {}), NoneExpr>>, TRUE),
     \* "/* c */ CREATE TABLE b AS SELECT * FROM a": the text starts with a comment
     Query(FALSE, <<CreateExpr(T("b"), {T("a")}, {})>>, FALSE)}

\* ------------------------------------------------------------------ batch analysis: specification

Init ==
    /\ IdleConvert
    /\ IdleCalls
    /\ IdleExtract
    /\ IdleSort
    /\ IdleSplit
    /\ queries \in SeqsUpTo(BatchQueries, MaxQueries)
    /\ batch_split = NoMethod
    /\ batch_result = NoResult
    /\ batch_pc = "call"
    /\ large_result = NoResult
    /\ large_pc = "call"

\* analyze_batch: split_batch_queries on a text of some length and quick count
\* returns the statements; then the large-batch strategy above the threshold,
\* else extraction, analyze_queries and the dict.
AnalyzeBatch ==
    /\ batch_pc = "call"
    /\ \E method \in {SplitMethod(length, quick_count, blank, parser) :
                          length \in 0..(BatchSizeLimit + 1),
                          quick_count \in 1..(QuickCountLimit + 1),
                          blank \in BOOLEAN, parser \in ParserOutcomes} :
           /\ method.splitter = "sqlglot" => queries /= <<>>
           /\ method.splitter = "none" => queries = <<>>
           /\ batch_split' = method
    /\ IF Len(queries) > LargeBatchThreshold
       THEN \E g \in BuildDependencyGraph(CriticalQueries(queries, LargeCreated(queries))) :
                LET sorted == TopologicalSort(g)
                IN  /\ batch_result' = LargeResult(queries, sorted)
                    /\ input_graph' = g
                    /\ graph' = sorted.graph
                    /\ table_order' = sorted.order
                    /\ cycle_warning' = sorted.warning
                    /\ cycle_tables' = sorted.cycles
       ELSE \E g \in BuildDependencyGraph(queries) :
                LET sorted == TopologicalSort(g)
                IN  /\ batch_result' = StandardResult(queries, sorted)
                    /\ input_graph' = g
                    /\ graph' = sorted.graph
                    /\ table_order' = sorted.order
                    /\ cycle_warning' = sorted.warning
                    /\ cycle_tables' = sorted.cycles
    /\ batch_pc' = "returned"
    /\ sort_pc' = "returned"
    /\ UNCHANGED <<extractVars, queries, large_result, large_pc, splitVars, convertVars, callVars>>

\* _analyze_large_batch called directly on the same statements.
AnalyzeLargeBatch ==
    /\ large_pc = "call"
    /\ \E g \in BuildDependencyGraph(CriticalQueries(queries, LargeCreated(queries))) :
           large_result' = LargeResult(queries, TopologicalSort(g))
    /\ large_pc' = "returned"
    /\ UNCHANGED <<extractVars, sortVars, queries, batch_split, batch_result, batch_pc,
                   splitVars, convertVars, callVars>>

Next == AnalyzeBatch \/ AnalyzeLargeBatch

Spec == Init /\ [][Next]_vars

\* ------------------------------------------------------------------ conversion: specification

Dialects == {"mysql", "postgresql", "oracle", "pyspark", "postgres", "MYSQL", "invalid"}

\* The queries: one sqlglot transpiles, one it cannot parse ("NOT A VALID SQL
\* QUERY"), the empty text (parse_sql raises ValueError("Failed to parse SQL
\* query")), and a value that is no text.
ConvertQueries ==
    {[name |-> "SELECT", is_text |-> TRUE, transpiles |-> TRUE, parse_error |-> "none"],
     [name |-> "NOT SQL", is_text |-> TRUE, transpiles |-> FALSE, parse_error |-> "none"],
     [name |-> "", is_text |-> TRUE, transpiles |-> TRUE, parse_error |-> "ValueError"],
     [name |-> "None", is_text |-> FALSE, transpiles |-> FALSE, parse_error |-> "Exception"]}

InitConvert ==
    /\ IdleExtract
    /\ IdleCalls
    /\ IdleSort
    /\ IdleBatch
    /\ IdleSplit
    /\ source_dialect \in Dialects
    /\ target_dialect \in Dialects
    /\ sql_query \in ConvertQueries
    /\ sql_queries \in SeqsUpTo(ConvertQueries, MaxBatch)
    /\ api_convert = NotCalled
    /\ std_convert = NotCalled
    /\ api_batch = NotCalled
    /\ std_batch = NotCalled
    /\ convert_pc = "api.convert_sql"

\* api.convert_sql(sql, source_dialect, target_dialect)
CallApiConvertSql ==
    /\ convert_pc = "api.convert_sql"
    /\ api_convert' = ApiConvertSql(sql_query, source_dialect, target_dialect)
    /\ convert_pc' = "converter.convert_sql"
    /\ UNCHANGED <<source_dialect, target_dialect, sql_query, sql_queries, std_convert,
                   api_batch, std_batch, extractVars, sortVars, batchVars, splitVars, callVars>>

\* converter.convert_sql(sql, source_dialect, target_dialect)
CallConvertSql ==
    /\ convert_pc = "converter.convert_sql"
    /\ std_convert' = Convert(sql_query, source_dialect, target_dialect)
    /\ convert_pc' = "api.batch_convert_sql"
    /\ UNCHANGED <<source_dialect, target_dialect, sql_query, sql_queries, api_convert,
                   api_batch, std_batch, extractVars, sortVars, batchVars, splitVars, callVars>>

\* api.batch_convert_sql(queries, source_dialect, target_dialect)
CallApiBatchConvertSql ==
    /\ convert_pc = "api.batch_convert_sql"
    /\ api_batch' = ApiBatchConvertSql(sql_queries, source_dialect, target_dialect)
    /\ convert_pc' = "batch_convert"
    /\ UNCHANGED <<source_dialect, target_dialect, sql_query, sql_queries, api_convert,
                   std_convert, std_batch, extractVars, sortVars, batchVars, splitVars, callVars>>

\* SQLConverter().batch_convert(queries, source_dialect, target_dialect)
CallBatchConvert ==
    /\ convert_pc = "batch_convert"
    /\ std_batch' = BatchConvert(sql_queries, 1, source_dialect, target_dialect, <<>>)
    /\ convert_pc' = "done"
    /\ UNCHANGED <<source_dialect, target_dialect, sql_query, sql_queries, api_convert,
                   std_convert, api_batch, extractVars, sortVars, batchVars, splitVars, callVars>>

NextConvert ==
    CallApiConvertSql \/ CallConvertSql \/ CallApiBatchConvertSql \/ CallBatchConvert

SpecConvert == InitConvert /\ [][NextConvert]_vars

\* ------------------------------------------------------------------ repeated calls: specification

\* A batch of LargeBatchThreshold + 1 statements: "SELECT * FROM c" and CREATEs.
LargeCallInput ==
    [i \in 1..(LargeBatchThreshold + 1) |->
        IF i = 1 THEN SelectFrom({T("c")}) ELSE CreateFrom(T("b"), {T("a")})]

\* The statement lists the calls are made on.
CallInputs ==
    {<<>>,
     <<SelectFrom({T("a"), T("c")})>>,
     <<CreateFrom(T("b"), {T("a")})>>,
     <<CreateFrom(T("a"), {}), CreateFrom(T("c"), {T("b")})>>,
     <<Query(TRUE, <<>>, FALSE)>>,
     LargeCallInput}

\* What analyze_batch returns for the statements, with the sets the call ended
\* with, on an analyzer whose latest call left the sets `leftover`.
AnalyzeBatchResults(qs, leftover) ==
    IF Len(qs) > LargeBatchThreshold
    THEN {[result |-> LargeResult(qs, TopologicalSort(g)), sets |-> LargeSets(qs)] :
              g \in BuildDependencyGraph(CriticalQueries(qs, LargeCreated(qs)))}
    ELSE {[result |-> StandardResultAfter(qs, TopologicalSort(g), leftover),
           sets   |-> StandardPass(qs, 0, NewSets(leftover))] :
              g \in BuildDependencyGraph(qs)}

InitCalls ==
    /\ IdleCalls
    /\ IdleConvert
    /\ IdleExtract
    /\ IdleSort
    /\ IdleSplit
    /\ IdleBatch

\* analyzer.analyze_batch(...) once more on the same instance.
AnalyzeBatchAgain ==
    /\ Len(call_log) < MaxCalls
    /\ \E qs \in CallInputs : \E r \in AnalyzeBatchResults(qs, last_sets) :
           /\ call_log' = Append(call_log, [call |-> "analyzer.analyze_batch",
                                             input |-> qs, result |-> r.result])
           /\ last_sets' = r.sets
    /\ analyzer' = analyzer
    /\ UNCHANGED <<extractVars, sortVars, batchVars, splitVars, convertVars>>

\* analyze_sql_batch(...): a new instance, one call on it.
AnalyzeSqlBatch ==
    /\ Len(call_log) < MaxCalls
    /\ \E qs \in CallInputs : \E r \in AnalyzeBatchResults(qs, NoSets) :
           /\ call_log' = Append(call_log, [call |-> "analyze_sql_batch",
                                             input |-> qs, result |-> r.result])
           /\ last_sets' = r.sets
    /\ analyzer' = NewAnalyzer
    /\ UNCHANGED <<extractVars, sortVars, batchVars, splitVars, convertVars>>

NextCalls == AnalyzeBatchAgain \/ AnalyzeSqlBatch

SpecCalls == InitCalls /\ [][NextCalls]_vars

\* ------------------------------------------------------------------ graph facts

\* The keys the tables of S depend on directly.
DependsOn(g, S) == UNION {g.deps[k] \cap KeySet(g) : k \in S \cap KeySet(g)}

RECURSIVE Closure(_, _)
Closure(g, S) ==
    LET S2 == S \cup DependsOn(g, S)
    IN  IF S2 = S THEN S ELSE Closure(g, S2)

\* Some table depends on itself through one or more edges.
HasCycle(g) == \E n \in KeySet(g) : n \in Closure(g, DependsOn(g, {n}))

\* The position of a table in a list (0 when absent).
IndexOf(seq, x) ==
    IF x \in ToSet(seq) THEN CHOOSE i \in 1..Len(seq) : seq[i] = x ELSE 0

NoDuplicates(seq) == \A i, j \in 1..Len(seq) : seq[i] = seq[j] => i = j

\* ------------------------------------------------------------------ claims: topological sort

\* Every key of the graph that was sorted occurs exactly once in the order.
EveryNodeOnce(order, g) ==
    /\ Len(order) = Len(g.keys)
    /\ ToSet(order) = KeySet(g)
    /\ NoDuplicates(order)

\* C1: for a graph without cycles built from the batch, table_creation_order
\* places every table after all tables it depends on: for each edge A -> B
\* (A depends on B) the index of B is strictly smaller than the index of A.
C1_DependenciesBeforeDependents ==
    (batch_pc = "returned" /\ ~HasCycle(input_graph))
        => \A A \in KeySet(input_graph) : \A B \in input_graph.deps[A] :
               /\ IndexOf(batch_result.table_creation_order, B) > 0
               /\ IndexOf(batch_result.table_creation_order, B)
                      < IndexOf(batch_result.table_creation_order, A)

\* C2: for every input graph, cyclic or not, the list _topological_sort returns
\* holds every key of the graph exactly once.
C2_OrderHoldsEveryNodeOnce ==
    sort_pc = "returned" => EveryNodeOnce(table_order, input_graph)

\* C2 witness: sorts of a graph of three tables with an edge, one without a
\* cycle and (checked by C3's witness) one with.
C2_Witness ==
    /\ sort_pc = "returned"
    /\ Len(table_order) = 3
    /\ ~HasCycle(input_graph)
    /\ \E k \in KeySet(input_graph) : input_graph.deps[k] \cap KeySet(input_graph) /= {}

\* The part of the order that was emitted through the queue.
Resolved == SubSeq(table_order, 1, Len(table_order) - Len(cycle_tables))

\* C3: for a graph with a cycle the sort returns (it does not raise) an order
\* holding every node, the unresolved nodes appended after the resolved ones
\* in the graph's iteration order, and the warning names exactly those nodes.
C3_CycleTolerated ==
    (sort_pc = "returned" /\ HasCycle(input_graph))
        => /\ cycle_warning
           /\ cycle_tables /= <<>>
           /\ EveryNodeOnce(table_order, input_graph)
           /\ table_order = Resolved \o cycle_tables
           /\ cycle_tables = CycleNodes(input_graph.keys, Resolved)
           /\ \A n \in KeySet(input_graph) :
                  n \in Closure(input_graph, DependsOn(input_graph, {n}))
                      => n \in ToSet(cycle_tables)

\* C3 witness: the sort of {a: {b}, b: {a}} has returned.
C3_Witness ==
    /\ sort_pc = "returned"
    /\ input_graph = Dict(<<NodeName(1), NodeName(2)>>,
                          (NodeName(1) :> {NodeName(2)}) @@ (NodeName(2) :> {NodeName(1)}))
    /\ Len(table_order) = 2

\* ------------------------------------------------------------------ claims: batch analysis

AllCreated(qs) == UNION {ExtractTablesFromQuery(qs[i]).created : i \in 1..Len(qs)}

AllReferenced(qs) == UNION {ExtractTablesFromQuery(qs[i]).referenced : i \in 1..Len(qs)}

\* C4: in standard mode external_dependencies is the union of the referenced
\* sets of all statements minus the union of their created sets: every table
\* referenced by some statement and created by none is listed, and no created
\* table is.
C4_ExternalDependencies ==
    (batch_pc = "returned" /\ batch_result.status = "standard")
        => /\ batch_result.external_dependencies = AllReferenced(queries) \ AllCreated(queries)
           /\ \A i \in 1..Len(queries) :
                  \A t \in ExtractTablesFromQuery(queries[i]).referenced :
                      t \in batch_result.external_dependencies
                          <=> \A j \in 1..Len(queries) :
                                  t \notin ExtractTablesFromQuery(queries[j]).created

\* C4 witness: a CREATE of a, then a SELECT joining a and c: c is listed, a
\* is not.
C4_Witness ==
    /\ batch_pc = "returned"
    /\ batch_result.status = "standard"
    /\ queries = <<CreateFrom(T("a"), {}), SelectFrom({T("a"), T("c")})>>
    /\ batch_result.external_dependencies = {<<"c">>}

\* The orders the standard strategy can return for the statements.
StandardOrders(qs) == {TopologicalSort(g).order : g \in BuildDependencyGraph(qs)}

\* C5: for a batch of at most 1000 statements the large-batch strategy, called
\* directly, yields the same table_creation_order and the same
\* external_dependencies as the standard strategy.
C5_LargeBatchEquivalence ==
    (batch_pc = "returned" /\ large_pc = "returned" /\ Len(queries) <= LargeBatchThreshold)
        => /\ large_result.external_dependencies = batch_result.external_dependencies
           /\ large_result.table_creation_order \in StandardOrders(queries)

\* ------------------------------------------------------------------ claims: extraction

\* C6: on every return path created and referenced are disjoint.
C6_CreatedReferencedDisjoint ==
    ex_pc = "returned" => created_tables \cap referenced_tables = {}

\* C7: when parsing or analysing the statement fails, the failure is logged and
\* both returned sets are empty.
C7_FailureReturnsEmptySets ==
    (ex_pc = "returned" /\ parse_warning)
        => (created_tables = {} /\ referenced_tables = {})

\* The references of one parsed statement that match none of the CTE aliases
\* its own WITH clause defines.
RealReferences(expression) ==
    {n \in GetTableReferences(expression) :
         n \notin {Lower(c) : c \in expression.ctes}}

Recase(F(_), q) ==
    [q EXCEPT !.expressions =
        [i \in 1..Len(q.expressions) |->
            [kind   |-> q.expressions[i].kind,
             this   |-> Tbl(F(q.expressions[i].this.db), F(q.expressions[i].this.name)),
             tables |-> {Tbl(F(t.db), F(t.name)) : t \in q.expressions[i].tables},
             ctes   |-> {F(c) : c \in q.expressions[i].ctes}]]]

SameTables(q) ==
    /\ ExtractTablesFromQuery(q).created = created_tables
    /\ ExtractTablesFromQuery(q).referenced = referenced_tables

\* The targets of the Create expressions the loop got through.
CreateTargets(q) ==
    {q.expressions[i].this :
         i \in {j \in 1..Len(q.expressions) :
                    /\ q.expressions[j].kind = "create"
                    /\ \A k \in 1..j : q.expressions[k].kind /= "none"}}

\* C9: every returned name is lower-case, a qualified name is schema.table with
\* both parts lower-cased, and statements differing only in letter case yield
\* identical sets.
C9_LowerCaseNames ==
    ex_pc = "returned"
        => /\ \A n \in created_tables \cup referenced_tables : Lower(n) = n
           /\ ~query.parse_error =>
                  \A t \in CreateTargets(query) :
                      (IF t.db = <<>> THEN Lower(t.name)
                       ELSE Lower(t.db) \o <<".">> \o Lower(t.name)) \in created_tables
           /\ SameTables(Recase(Upper, query))
           /\ SameTables(Recase(Lower, query))

\* C9 witness: a statement creating S.b from a and s.B returned {s.b}, {a}.
C9_Witness ==
    /\ ex_pc = "returned"
    /\ query = Query(FALSE, <<CreateExpr(Tbl(<<"S">>, <<"b">>),
                                          {Tbl(<<>>, <<"a">>), Tbl(<<"s">>, <<"B">>)}, {})>>, TRUE)
    /\ created_tables = {<<"s", ".", "b">>}
    /\ referenced_tables = {<<"a">>}

\* ------------------------------------------------------------------ claims: splitter

\* The loop is about to read a character.
Scanning == split_pc = "scan" /\ scan_pos <= Len(sql_batch)

\* C10: in the character scan a ';' ends the statement exactly when the
\* scanner is outside any quoted literal and the parenthesis depth is 0; a
\* literal is closed only by the quote character that opened it; the depth
\* never goes below zero.
C10_SplitOnlyOutsideQuotesAndParens ==
    [][Scanning =>
          LET char == sql_batch[scan_pos]
          IN  /\ (current_query' = <<>>) <=> (char = ";" /\ ~in_quotes /\ paren_level = 0)
              /\ (split_queries' /= split_queries)
                     => (char = ";" /\ ~in_quotes /\ paren_level = 0)
              /\ (in_quotes /\ char /= quote_char) => (in_quotes' /\ quote_char' = quote_char)
              /\ (in_quotes /\ char = quote_char) => ~in_quotes'
              /\ paren_level >= 0 /\ paren_level' >= 0]_vars

\* C10 witness: "';';" scanned to its end gave one statement: the first ';'
\* is inside the literal, the second ends the statement.
C10_Witness ==
    /\ split_pc = "returned"
    /\ sql_text = <<"'", ";", "'", ";">>
    /\ split_queries = <<sql_text>>
    /\ current_query = <<>>

\* The statements occur in the text one after the other, in this order.
RECURSIVE OccurInOrder(_, _, _)
OccurInOrder(qs, text, from) ==
    IF qs = <<>>
    THEN TRUE
    ELSE \E p \in from..(Len(text) - Len(Head(qs)) + 1) :
             /\ SubSeq(text, p, p + Len(Head(qs)) - 1) = Head(qs)
             /\ OccurInOrder(Tail(qs), text, p + Len(Head(qs)))

\* C11: every string the character scan returns is non-empty and has no
\* leading or trailing whitespace, the strings come in the order in which they
\* occur in the (comment-free) input, and an empty or whitespace-only input
\* gives the empty list.
C11_TrimmedNonEmptyInOrder ==
    split_pc \in {"returned", "streamed", "dispatched"}
        => /\ \A i \in 1..Len(split_queries) :
                  /\ split_queries[i] /= <<>>
                  /\ split_queries[i][1] \notin Whitespace
                  /\ split_queries[i][Len(split_queries[i])] \notin Whitespace
           /\ OccurInOrder(split_queries, sql_batch, 1)
           /\ ToSet(sql_text) \subseteq Whitespace => split_queries = <<>>

\* C11 witness: "x; x" gave "x;" and "x": both trimmed, in input order.
C11_Witness ==
    /\ split_pc = "returned"
    /\ sql_text = <<"x", ";", " ", "x">>
    /\ split_queries = <<<<"x", ";">>, <<"x">>>>

\* ------------------------------------------------------------------ claims: degraded detail, determinism

\* Detail records of non-CREATE statements were left out of query_details.
DetailCapped ==
    /\ batch_result.status = "large"
    /\ Len(OtherStatements(queries)) > DetailCap

\* C12: whenever analyze_batch returns a result whose statements came from a
\* fallback splitter (character scan or streaming) or whose query_details was
\* capped, the result carries the note field.
C12_DegradedDetailHasNote ==
    (batch_pc = "returned" /\ (batch_split.splitter \in {"scan", "stream"} \/ DetailCapped))
        => batch_result.has_note

\* The orders analyze_batch can return for the statements, over the orders in
\* which the table sets can be iterated.
PossibleOrders ==
    IF Len(queries) > LargeBatchThreshold
    THEN StandardOrders(CriticalQueries(queries, LargeCreated(queries)))
    ELSE StandardOrders(queries)

\* C13: analyze_batch returns one and the same table_creation_order for a
\* batch whatever order the table sets are iterated in.
C13_OrderDeterministic ==
    batch_pc = "returned" => PossibleOrders = {batch_result.table_creation_order}

\* ------------------------------------------------------------------ claims: cycle report

\* C16: for every graph without a cycle all nodes are emitted through the
\* queue, none is appended by the cycle fallback and no circular-dependency
\* warning is produced.
C16_NoCycleNoWarning ==
    (sort_pc = "returned" /\ ~HasCycle(input_graph))
        => /\ ~cycle_warning
           /\ cycle_tables = <<>>
           /\ Len(Resolved) = Len(input_graph.keys)

\* ------------------------------------------------------------------ claims: streaming splitter, size policy

\* C17: for every comment-free text the streaming splitter returns the same
\* list of statements as the character scan.
C17_StreamEqualsScan ==
    (split_pc \in {"streamed", "dispatched"} /\ StripComments(sql_text) = sql_text)
        => stream_queries = split_queries

\* C20: split_batch_queries never calls the structural parser on a text of
\* 1,000,000 characters or more and always splits it with the streaming
\* splitter; a shorter text goes to the structural parser first.
C20_SizePolicy ==
    split_pc = "dispatched"
        => IF Len(sql_text) >= BatchSizeLimit
           THEN ~split_method.parser_called /\ split_method.splitter = "stream"
           ELSE split_method.parser_called

\* ------------------------------------------------------------------ claims: large-batch references

\* C18: in large-batch mode external_dependencies holds every table that some
\* statement of the batch references, CREATE or not, and that no statement
\* creates.
C18_LargeModeCountsAllReferences ==
    (batch_pc = "returned" /\ batch_result.status = "large")
        => \A t \in AllReferenced(queries) \ AllCreated(queries) :
               t \in batch_result.external_dependencies

\* ------------------------------------------------------------------ claims: dependency graph

\* The statements analyze_batch hands to analyze_queries.
GraphQueries ==
    IF batch_result.status = "large"
    THEN CriticalQueries(queries, LargeCreated(queries))
    ELSE queries

\* The statements that create the table.
Creators(qs, table) == {i \in 1..Len(qs) : table \in ExtractTablesFromQuery(qs[i]).created}

\* C19: the graph's nodes are the union of all created and all referenced
\* tables over all statements, each once; the dependency set of a table is the
\* union of the referenced sets of all statements that create it, and empty
\* for a table no statement creates or whose creators reference nothing.
C19_GraphIsUnionOfStatements ==
    batch_pc = "returned"
        => /\ KeySet(input_graph) = AllCreated(GraphQueries) \cup AllReferenced(GraphQueries)
           /\ NoDuplicates(input_graph.keys)
           /\ DOMAIN input_graph.deps = KeySet(input_graph)
           /\ \A t \in KeySet(input_graph) :
                  /\ input_graph.deps[t]
                         = UNION {ExtractTablesFromQuery(GraphQueries[i]).referenced :
                                      i \in Creators(GraphQueries, t)}
                  /\ t \notin AllCreated(GraphQueries) => input_graph.deps[t] = {}

\* C19 witness: a is created from b, then again from c: a depends on both,
\* and b and c are nodes without dependencies.
C19_Witness ==
    /\ batch_pc = "returned"
    /\ queries = <<CreateFrom(T("a"), {T("b")}), CreateFrom(T("a"), {T("c")})>>
    /\ input_graph.deps = (<<"a">> :> {<<"b">>, <<"c">>}) @@ (<<"b">> :> {}) @@ (<<"c">> :> {})

\* ------------------------------------------------------------------ claims: conversion

\* The dialect is one get_supported_dialects lists, whatever its letter case.
Supported(dialect) == DialectLower(dialect) \in DialectHandlers

\* C14: on a query text api.convert_sql and converter.convert_sql raise
\* ValueError whenever the source or the target dialect is not supported; they
\* return no string then.
C14_UnsupportedDialectRaises ==
    (convert_pc = "api.batch_convert_sql" /\ sql_query.is_text
         /\ (~Supported(source_dialect) \/ ~Supported(target_dialect)))
        => /\ api_convert.status = "ValueError"
           /\ std_convert.status = "ValueError"

\* The entry was made from the query (None stands for a failed one).
EntryOf(entry, q) == entry = None \/ entry.query = q.name

ParserFailed ==
    \/ parser_result.outcome = "raise"
    \/ parser_result.outcome /= "not called" /\ parser_result.statements = <<>>

\* C21: on a text within the size limit split_batch_queries always returns and
\* never propagates a parser failure: when the parser raises, or returns no
\* statement for a non-blank text, the result is exactly what the character
\* scan returns for that text; when the parser returns at least one statement,
\* these statements are the result and no other splitter is used.
C21_ParserFailureFallsBackToScan ==
    (split_pc = "dispatched" /\ Len(sql_text) <= BatchSizeLimit)
        => /\ split_returned.status = "returned"
           /\ (ParserFailed /\ Strip(sql_text) /= <<>>)
                  => split_returned.queries = split_queries
           /\ ~ParserFailed
                  => /\ split_returned.queries = parser_result.statements
                     /\ split_method.splitter = "sqlglot"

\* C21 witness: the parser raised on "x;x" and the call returned the two
\* statements of the character scan.
C21_Witness ==
    /\ split_pc = "dispatched"
    /\ sql_text = <<"x", ";", "x">>
    /\ parser_result.outcome = "raise"
    /\ split_returned = [status |-> "returned", queries |-> <<<<"x", ";">>, <<"x">>>>]

\* The first position at or after p that holds no whitespace.
RECURSIVE SkipWhitespace(_, _)
SkipWhitespace(text, p) ==
    IF p <= Len(text) /\ text[p] \in Whitespace THEN SkipWhitespace(text, p + 1) ELSE p

\* From position p on, the text is the statements in this order with nothing
\* but whitespace before, between and after them.
RECURSIVE Covers(_, _, _)
Covers(qs, text, p) ==
    LET start == SkipWhitespace(text, p)
    IN  IF qs = <<>>
        THEN start > Len(text)
        ELSE /\ start + Len(Head(qs)) - 1 <= Len(text)
             /\ SubSeq(text, start, start + Len(Head(qs)) - 1) = Head(qs)
             /\ Covers(Tail(qs), text, start + Len(Head(qs)))

\* C22: the character scan loses no text: the returned statements, in order,
\* make up the comment-stripped input with only whitespace around statements
\* removed, and whatever is left when the input ends, even inside an open
\* parenthesis or an open quote, is returned as the last statement.
C22_ScanLosesNoText ==
    split_pc \in {"returned", "streamed", "dispatched"}
        => /\ Covers(split_queries, sql_batch, 1)
           /\ Strip(current_query) /= <<>>
                  => /\ split_queries /= <<>>
                     /\ split_queries[Len(split_queries)] = Strip(current_query)

\* C22 witness: "(; x" ends inside an open parenthesis and is returned whole
\* as the only statement.
C22_Witness ==
    /\ split_pc = "returned"
    /\ sql_text = <<"(", ";", " ", "x">>
    /\ paren_level = 1
    /\ split_queries = <<<<"(", ";", " ", "x">>>>

\* ------------------------------------------------------------------ claims: records of the two strategies

\* The record analyze_batch keeps for a statement in standard mode.
RecordOf(q) ==
    Detail(q, ExtractTablesFromQuery(q).created, ExtractTablesFromQuery(q).referenced)

\* C23: when the splitter returns at most LargeBatchThreshold statements (the
\* threshold itself included), analyze_batch uses the standard strategy:
\* query_details holds exactly one record per statement, in statement order,
\* with the statement's text and its created and referenced tables, and
\* total_queries is the number of statements.
C23_StandardModeRecordsEveryStatement ==
    (batch_pc = "returned" /\ Len(queries) <= LargeBatchThreshold)
        => /\ batch_result.status = "standard"
           /\ Len(batch_result.query_details) = Len(queries)
           /\ \A i \in 1..Len(queries) :
                  batch_result.query_details[i] = RecordOf(queries[i])
           /\ batch_result.total_queries = Len(queries)

\* C23 witness: a batch of exactly LargeBatchThreshold statements, a CREATE
\* and a SELECT, analysed in standard mode with a record for each.
C23_Witness ==
    /\ batch_pc = "returned"
    /\ Len(queries) = LargeBatchThreshold
    /\ batch_result.status = "standard"
    /\ queries[1] = CreateFrom(T("b"), {T("a")})
    /\ queries[LargeBatchThreshold] = SelectFrom({T("c")})
    /\ batch_result.query_details[LargeBatchThreshold].references = {<<"c">>}

\* The statement holds a CREATE expression.
IsCreateStatement(q) == \E i \in 1..Len(q.expressions) : q.expressions[i].kind = "create"

IsOtherStatement(q) == ~IsCreateStatement(q)

\* The record's statement is not a CREATE statement.
IsOtherRecord(d) == IsOtherStatement(d.query)

\* C24: when the splitter returns more than LargeBatchThreshold statements,
\* analyze_batch uses the large-batch strategy: query_details holds a record
\* for every CREATE statement, the records of non-CREATE statements are at
\* most DetailCap, belong to the first non-CREATE statements in batch order
\* and have an empty creates list, total_queries is the full statement count,
\* and the result carries the note.
C24_LargeModeKeepsCreateRecords ==
    (batch_pc = "returned" /\ Len(queries) > LargeBatchThreshold)
        => LET details == batch_result.query_details
               others  == SelectSeq(queries, IsOtherStatement)
               kept    == SelectSeq(details, IsOtherRecord)
           IN  /\ batch_result.status = "large"
               /\ \A k \in 1..Len(queries) :
                      IsCreateStatement(queries[k])
                          => \E i \in 1..Len(details) : details[i].query = queries[k]
               /\ Len(kept) <= Min(DetailCap, Len(others))
               /\ \A i \in 1..Len(kept) :
                      /\ kept[i].query = others[i]
                      /\ kept[i].creates = {}
               /\ batch_result.total_queries = Len(queries)
               /\ batch_result.has_note

\* ------------------------------------------------------------------ claims: effect of the sort on its graph

\* C25: _topological_sort removes the edge from a table to a resolved
\* dependency, so after it returns on a graph without cycles every dependency
\* set of the caller's graph is empty.
C25_SortEmptiesAcyclicGraph ==
    (sort_pc = "returned" /\ ~HasCycle(input_graph))
        => \A t \in KeySet(graph) : graph.deps[t] = {}

\* ------------------------------------------------------------------ claims: no state between calls

\* What analyze_batch can return for the statements as the first call on a
\* new analyzer (one result per iteration order of the sets).
FirstCallResults(qs) == {r.result : r \in AnalyzeBatchResults(qs, NoSets)}

\* C26: analyze_batch keeps no state between calls: in every sequence of
\* calls, on one analyzer or through analyze_sql_batch, the result of each
\* call is a result the same input gives as the first call on a new analyzer,
\* whatever the calls before it were, and the analyzer's fields are as the
\* constructor set them.
C26_NoStateBetweenCalls ==
    /\ \A i \in 1..Len(call_log) :
           call_log[i].result \in FirstCallResults(call_log[i].input)
    /\ analyzer = NewAnalyzer

\* C26 witness: the second call on "CREATE TABLE b AS SELECT * FROM a" came
\* after a call that had collected the tables a and c, and reports b and a only.
C26_Witness ==
    /\ Len(call_log) = 2
    /\ call_log[2].call = "analyzer.analyze_batch"
    /\ call_log[1].input = <<SelectFrom({T("a"), T("c")})>>
    /\ call_log[2].input = <<CreateFrom(T("b"), {T("a")})>>
    /\ last_sets.created = {<<"b">>}
    /\ call_log[2].result.external_dependencies = {<<"a">>}
    /\ call_log[2].result.total_queries = 1

\* ------------------------------------------------------------------ claims: tables of the result

\* The number of entries of the order that hold the table.
Occurrences(order, table) == Cardinality({i \in 1..Len(order) : order[i] = table})

\* C27: every table created by some statement of the batch appears exactly
\* once in the table_creation_order analyze_batch returns, under the standard
\* and under the large-batch strategy.
C27_CreatedTablesListedOnce ==
    batch_pc = "returned"
        => \A t \in AllCreated(queries) :
               Occurrences(batch_result.table_creation_order, t) = 1

\* C28: in standard mode the result of analyze_batch is consistent with
\* itself: total_tables is the number of entries of table_creation_order, and
\* the tables listed in table_creation_order are exactly the tables created in
\* the batch together with external_dependencies.
C28_StandardResultSelfConsistent ==
    (batch_pc = "returned" /\ batch_result.status = "standard")
        => /\ batch_result.total_tables = Len(batch_result.table_creation_order)
           /\ ToSet(batch_result.table_creation_order)
                  = AllCreated(queries) \cup batch_result.external_dependencies

\* C28 witness: "CREATE TABLE b AS SELECT * FROM a" and "SELECT * FROM a, c":
\* b is created, a and c are external, and three tables are listed.
C28_Witness ==
    /\ batch_pc = "returned"
    /\ batch_result.status = "standard"
    /\ queries = <<CreateFrom(T("b"), {T("a")}), SelectFrom({T("a"), T("c")})>>
    /\ batch_result.external_dependencies = {<<"a">>, <<"c">>}
    /\ batch_result.total_tables = 3
    /\ Len(batch_result.table_creation_order) = 3

\* ------------------------------------------------------------------ claims: chunk size of the streaming splitter

\* _stream_split_queries with the whole text as its only chunk.
SingleChunk(text) == StreamChunks(text, Len(text) + 1, 0, <<>>, <<>>)

\* C29: the list _stream_split_queries returns does not depend on the chunk
\* size: for every text and every positive chunk size, reading the text chunk
\* by chunk with the carry-over buffer gives the list that reading the whole
\* text as a single chunk gives.
C29_ChunkSizeIrrelevant ==
    split_pc \in {"streamed", "dispatched"}
        => /\ stream_queries = SingleChunk(sql_text)
           /\ \A chunk_size \in 1..(MaxTextLen + 1) :
                  StreamChunks(sql_text, chunk_size, 0, <<>>, <<>>) = SingleChunk(sql_text)

\* C29 witness: "xx;x" read in chunks "xx" and ";x": the statement "xx;" lies
\* across the chunk border and is returned in one piece.
C29_Witness ==
    /\ split_pc = "streamed"
    /\ sql_text = <<"x", "x", ";", "x">>
    /\ StreamChunkSize < Len(sql_text)
    /\ stream_queries = <<<<"x", "x", ";">>, <<"x">>>>

\* ------------------------------------------------------------------ claims: origin of the edges

\* C30: in the graph _build_dependency_graph returns every edge starts at a
\* table created by some statement and leads to a table that statement
\* references; a statement that creates nothing adds its tables as nodes but
\* no edge, so a table that is only referenced has an empty dependency set.
C30_EdgesStartAtCreatedTables ==
    batch_pc = "returned"
        => /\ \A t \in KeySet(input_graph) : \A d \in input_graph.deps[t] :
                  \E i \in 1..Len(GraphQueries) :
                      /\ t \in ExtractTablesFromQuery(GraphQueries[i]).created
                      /\ d \in ExtractTablesFromQuery(GraphQueries[i]).referenced
           /\ \A i \in 1..Len(GraphQueries) :
                  ExtractTablesFromQuery(GraphQueries[i]).created = {}
                      => ExtractTablesFromQuery(GraphQueries[i]).referenced
                             \subseteq KeySet(input_graph)
           /\ \A t \in AllReferenced(GraphQueries) \ AllCreated(GraphQueries) :
                  input_graph.deps[t] = {}

\* C30 witness: "CREATE TABLE b AS SELECT * FROM a" and "SELECT * FROM a, c":
\* the only edge is b -> a, and a and c are nodes without dependencies.
C30_Witness ==
    /\ batch_pc = "returned"
    /\ queries = <<CreateFrom(T("b"), {T("a")}), SelectFrom({T("a"), T("c")})>>
    /\ input_graph.deps = (<<"b">> :> {<<"a">>}) @@ (<<"a">> :> {}) @@ (<<"c">> :> {})

====
